---- MODULE Spec2Model ----
(***************************************************************************)
(* Notification service of the drone-mapping simulation                    *)
(* (src/notification-service/server.js): the artifact directory, the       *)
(* chokidar watcher, the tile registry (tilesMetadata), the broadcast set  *)
(* (clients) and the messages sent to every WebSocket session; and the     *)
(* client hook useTileWebSocket (src/unnamed/part_001): its sockets, its   *)
(* tile state, the animation queue and its timers.                         *)
(***************************************************************************)
EXTENDS Integers, Sequences, FiniteSets, TLC

\* ------------------------------------------------------------------ bounds
MaxTiles    == 2   \* tile ids 1..MaxTiles (tile_<row>_<col>)
MaxSessions == 1   \* WebSocket sessions that ever connect (Spec)
MaxHubSessions == 2 \* WebSocket sessions that ever connect (HubSpec)
MaxHubTiles == 1   \* tile ids the producer writes in HubSpec
MaxHubWrites == 2  \* files the producer writes in HubSpec
MaxWrites   == 3   \* files the producer writes, before and after startup
MaxTime     == 2   \* values taken by Date.now()
MaxClientTiles == 2 \* tile ids the client is sent
MaxSockets  == 2   \* sockets the hook ever creates
MaxEvents   == 3   \* ChangeEvents the client ever receives
MaxSnapshot == 2   \* tiles in one Snapshot sent to the client

TileIds  == 1..MaxTiles
Sessions == 1..(IF MaxHubSessions > MaxSessions THEN MaxHubSessions
                                                ELSE MaxSessions)

\* --------------------------------------------------------- artifact store
\* What a sidecar <id>.json can hold, by what JSON.parse makes of it:
\*   "unparsable"  JSON.parse throws
\*   "falsy"       parses to null, 0, false or ""
\*   "wrongshape"  parses to a truthy value that is not a tile record ({}, [])
\*   "valid"       parses to the metadata record of the tile
Contents == {"absent", "unparsable", "falsy", "wrongshape", "valid"}
Written  == Contents \ {"absent"}
Exts     == {"json", "tif"}
Paths    == [id : TileIds, ext : Exts]

VARIABLES
  phase,          \* "boot" | "scan" | "live": position in initializeWatcher
  scanQueue,      \* sidecars listed by readdirSync, still to be processed
  tif,            \* tif[i]: <i>.tif exists on disk
  json,           \* json[i]: content of <i>.json
  pending,        \* pending[p]: debounced chokidar event waiting for path p
  writes,         \* files written by the producer so far
  now,            \* the latest value Date.now() returned
  tilesMetadata,  \* the Map, as its entries in insertion order
  clients,        \* the Set of sessions broadcast() iterates
  readyState,     \* readyState[s] of session s ("NONE" before it connects)
  sent,           \* sent[s]: messages handed to ws.send of session s, in order
  regLog,         \* history: every tilesMetadata.set, in order
  openAt,         \* history: Len(regLog) when session s opened
  dropped,        \* history: ids whose sidecar was dropped for a missing raster
  startupIds,     \* history: ids registered by the startup scan
  handled,        \* history: sessions whose close or error handler has run
  response        \* the HTTP response of the step just taken, if it was a query

serverVars == <<phase, scanQueue, tif, json, pending, writes, now,
                tilesMetadata, clients, readyState, sent, regLog, openAt,
                dropped, startupIds, handled, response>>

\* the hook useTileWebSocket
VARIABLES
  mounted,             \* "no" | "yes" | "gone": the effect ran, its cleanup ran
  sockets,             \* sockets[k]: readyState of the k-th new WebSocket
  wsRef,               \* wsRef.current (0: null)
  snapshotDue,         \* open sockets whose 'initial' message is still to come
  tiles,               \* the Map of all received tiles, id -> tile
  visibleTiles,        \* the Map of tiles whose scan completed, id -> tile
  isConnected,
  droneState,          \* [position, isScanning, targetTile]
  reconnectTimeoutRef, \* handle of the last reconnect timeout (0: null)
  reconnectTimers,     \* pending reconnect timeouts [handle, delay]
  pendingTilesRef,     \* the queue of tiles waiting for their scan
  processingRef,
  scanTimers,          \* pending scan timeouts, each with the tile it captured
  settleTimers,        \* number of pending 300 ms timeouts
  arrivals,            \* history: the tiles of the ChangeEvents handled
  scanLog,             \* history: the tiles that entered scanning
  interrupted,         \* history: ids being scanned at a disconnect since the
                       \*          last Snapshot
  absorbed             \* history: interrupted ids that the next Snapshot held

\* the component DroneLayer
VARIABLES
  layerTiles,          \* the tiles prop of the last render
  layersRef,           \* the ids that have an entry in layersRef.current
  processedCountRef,
  mapLayers,           \* mapLayers[i]: how many layers of tile i the map holds
  map                  \* the MapContext value is set (not null)

hookVars == <<mounted, sockets, wsRef, snapshotDue, tiles, visibleTiles,
              isConnected, droneState, reconnectTimeoutRef, reconnectTimers,
              pendingTilesRef, processingRef, scanTimers, settleTimers,
              arrivals, scanLog, interrupted, absorbed>>

layerVars == <<layerTiles, layersRef, processedCountRef, mapLayers, map>>

clientVars == <<hookVars, layerVars>>

vars == <<serverVars, clientVars>>

diskVars    == <<tif, json, pending, writes>>
sessionVars == <<clients, readyState, openAt>>

\* ------------------------------------------------------------- Map helpers
Has(m, id) == \E k \in 1..Len(m) : m[k].id = id

Get(m, id) == m[CHOOSE k \in 1..Len(m) : m[k].id = id]

\* Map.prototype.set as delete followed by set: a present key moves to the end
MapSet_Reinsert(m, id, rec) ==
  Append(SelectSeq(m, LAMBDA e : e.id # id), rec)

\* Map.prototype.set: a present key keeps its position, a new key is appended
MapSet(m, id, rec) ==
  IF Has(m, id)
    THEN [k \in 1..Len(m) |-> IF m[k].id = id THEN rec ELSE m[k]]
    ELSE Append(m, rec)

Ids(m) == {m[k].id : k \in 1..Len(m)}

\* ---------------------------------------------------------- tile processing
\* JSON.parse on the sidecar's content
JSONParse(content) ==
  CASE content = "valid"      -> [ok |-> TRUE,  value |-> "tile"]
    [] content = "wrongshape" -> [ok |-> TRUE,  value |-> "other"]
    [] content = "falsy"      -> [ok |-> TRUE,  value |-> "null"]
    [] OTHER                  -> [ok |-> FALSE, value |-> "null"]

\* readTileMetadata: the parsed value, or null when reading or parsing throws
readTileMetadata(id) ==
  LET r == JSONParse(json[id]) IN IF r.ok THEN r.value ELSE "null"

\* filename.endsWith('.json')
IsSidecar(p) == p.ext = "json"

\* processNewTile without the raster test
tifExists_Always(id) == TRUE

\* fs.existsSync(tifPath)
tifExists(id) == tif[id]

\* !metadata
NoMetadata(metadata) == metadata = "null"

\* which return of processNewTile a path takes
Outcome(p) ==
  CASE ~IsSidecar(p)                      -> "not_json"
    [] ~tifExists(p.id)                   -> "no_tif"
    [] NoMetadata(readTileMetadata(p.id)) -> "no_metadata"
    [] OTHER                              -> "stored"

\* tileData: the metadata spread, plus id and timestamp t (the two URLs are
\* functions of id alone)
tileData(id, t) == [id |-> id, meta |-> readTileMetadata(id), timestamp |-> t]

\* the values Date.now() may return: the clock never runs backwards
Clock == now..MaxTime

\* broadcast() without the membership and readyState tests
broadcastTargets_All == Sessions

\* the sessions broadcast() sends to
broadcastTargets == {c \in clients : readyState[c] = "OPEN"}

\* a forEach that stops at the first client that is not OPEN, as if the
\* send to it raised: the clients added after it get nothing
broadcast_Abort(message) ==
  [s \in Sessions |->
     IF s \in broadcastTargets
        /\ \A c \in clients : c < s => readyState[c] = "OPEN"
     THEN Append(sent[s], message) ELSE sent[s]]

broadcast(message) ==
  [s \in Sessions |-> IF s \in broadcastTargets
                        THEN Append(sent[s], message) ELSE sent[s]]

NewTileMsg(rec) == [type |-> "new_tile", tiles |-> <<rec>>]
InitialMsg(ts)  == [type |-> "initial",  tiles |-> ts]

processNewTile(p) ==
  IF Outcome(p) = "stored"
    THEN \E t \in Clock :
         /\ now' = t
         /\ tilesMetadata' = MapSet(tilesMetadata, p.id, tileData(p.id, t))
         /\ sent'   = broadcast(NewTileMsg(tileData(p.id, t)))
         /\ regLog' = Append(regLog, tileData(p.id, t))
    ELSE UNCHANGED <<now, tilesMetadata, sent, regLog>>

\* no query was answered in this step
NoResponse == [status |-> 0, tiles |-> <<>>]

\* ------------------------------------------------------- client: the data
ClientIds == 1..MaxClientTiles
SocketIds == 1..MaxSockets

\* the tile tile_<row>_<col> with id i, as the TileMetadata the client reads:
\* bbox is [minLat, minLon, maxLat, maxLon]
Tile(i) ==
  [id |-> i, row |-> i \div 2, col |-> i % 2,
   bbox |-> <<10 * (i \div 2), 10 * (i % 2),
              10 * (i \div 2) + 10, 10 * (i % 2) + 10>>]

ClientTiles == {Tile(i) : i \in ClientIds}

\* the tiles DroneLayer is given
MaxLayerTiles == 4
LayerIds == 1..MaxLayerTiles
LayerTiles == {Tile(i) : i \in LayerIds}

\* JavaScript null, for position and targetTile
null == [null |-> TRUE]

\* every message.tiles an 'initial' message can carry: no id twice, any order
Snapshots ==
  UNION {{q \in [1..n -> ClientTiles] :
            \A a, b \in 1..n : a # b => q[a].id # q[b].id} : n \in 0..MaxSnapshot}

\* the center taken as the average of the element pairs (bbox[0], bbox[1]) and
\* (bbox[2], bbox[3])
Center_Naive(tile) ==
  [lon |-> (tile.bbox[1] + tile.bbox[2]) \div 2,
   lat |-> (tile.bbox[3] + tile.bbox[4]) \div 2]

\* (bbox[1] + bbox[3]) / 2 and (bbox[0] + bbox[2]) / 2, bbox counted from 0
Center(tile) ==
  [lon |-> (tile.bbox[2] + tile.bbox[4]) \div 2,
   lat |-> (tile.bbox[1] + tile.bbox[3]) \div 2]

\* the comparator of a sort by col, then row
Before_ColFirst(a, b) ==
  IF a.col # b.col THEN a.col < b.col ELSE a.row < b.row

\* the comparator of the sort: row, then col
Before(a, b) == IF a.row # b.row THEN a.row < b.row ELSE a.col < b.col

\* [...message.tiles].sort(by row, then col)
RECURSIVE SortTiles(_)
SortTiles(q) ==
  IF q = <<>> THEN <<>>
  ELSE LET m == CHOOSE k \in 1..Len(q) :
                  \A j \in 1..Len(q) : j # k => Before(q[k], q[j])
           rest == [j \in 1..(Len(q) - 1) |-> IF j < m THEN q[j] ELSE q[j + 1]]
       IN <<q[m]>> \o SortTiles(rest)

\* new Map(sorted.map(tile => [tile.id, tile]))
NewMap(q) == [i \in {q[k].id : k \in 1..Len(q)} |->
                q[CHOOSE k \in 1..Len(q) : q[k].id = i]]

\* new Map(prev).set(tile.id, tile)
MapPut(m, tile) ==
  [i \in DOMAIN m \cup {tile.id} |-> IF i = tile.id THEN tile ELSE m[i]]

\* a state setter: React drops the update once the component is unmounted
SetState(cur, new) == IF mounted = "yes" THEN new ELSE cur

\* useState(true) for isConnected
ClientInit_Connected ==
  /\ mounted = "no"
  /\ sockets = [k \in SocketIds |-> "NONE"]
  /\ wsRef = 0
  /\ snapshotDue = {}
  /\ tiles = <<>>
  /\ visibleTiles = <<>>
  /\ isConnected = TRUE
  /\ droneState = [position |-> null, isScanning |-> FALSE, targetTile |-> null]
  /\ reconnectTimeoutRef = 0
  /\ reconnectTimers = {}
  /\ pendingTilesRef = <<>>
  /\ processingRef = FALSE
  /\ scanTimers = <<>>
  /\ settleTimers = 0
  /\ arrivals = <<>>
  /\ scanLog = <<>>
  /\ interrupted = {}
  /\ absorbed = {}

ClientInit ==
  /\ mounted = "no"
  /\ sockets = [k \in SocketIds |-> "NONE"]
  /\ wsRef = 0
  /\ snapshotDue = {}
  /\ tiles = <<>>
  /\ visibleTiles = <<>>
  /\ isConnected = FALSE
  /\ droneState = [position |-> null, isScanning |-> FALSE, targetTile |-> null]
  /\ reconnectTimeoutRef = 0
  /\ reconnectTimers = {}
  /\ pendingTilesRef = <<>>
  /\ processingRef = FALSE
  /\ scanTimers = <<>>
  /\ settleTimers = 0
  /\ arrivals = <<>>
  /\ scanLog = <<>>
  /\ interrupted = {}
  /\ absorbed = {}

\* DroneLayer before its first effect: useRef(new Map()), useRef(0), no layer
\* on the map
LayerInit ==
  /\ layerTiles = <<>>
  /\ layersRef = {}
  /\ processedCountRef = 0
  /\ mapLayers = [i \in LayerIds |-> 0]
  /\ map = FALSE

\* ---------------------------------------------------------------- startup
Init ==
  /\ ClientInit
  /\ LayerInit
  /\ phase = "boot"
  /\ scanQueue = <<>>
  /\ tif = [i \in TileIds |-> FALSE]
  /\ json = [i \in TileIds |-> "absent"]
  /\ pending = [p \in Paths |-> "none"]
  /\ writes = 0
  /\ now = 1
  /\ tilesMetadata = <<>>
  /\ clients = {}
  /\ readyState = [s \in Sessions |-> "NONE"]
  /\ sent = [s \in Sessions |-> <<>>]
  /\ regLog = <<>>
  /\ openAt = [s \in Sessions |-> 0]
  /\ dropped = {}
  /\ startupIds = {}
  /\ handled = {}
  /\ response = NoResponse

\* the orders readdirSync may list a set of files in
Orders(S) == {q \in [1..Cardinality(S) -> S] :
                \A a, b \in 1..Cardinality(S) : a # b => q[a] # q[b]}

\* initializeWatcher, up to the forEach over the listed sidecars
ReadDir ==
  /\ phase = "boot"
  /\ \E q \in Orders({i \in TileIds : json[i] # "absent"}) : scanQueue' = q
  /\ phase' = "scan"
  /\ response' = NoResponse
  /\ UNCHANGED <<handled, clientVars>>
  /\ UNCHANGED <<diskVars, now, tilesMetadata, sessionVars, sent, regLog,
                 dropped, startupIds>>

\* one iteration of the forEach: processNewTile(path.join(TILES_DIR, file))
ScanStep ==
  /\ phase = "scan"
  /\ scanQueue # <<>>
  /\ LET p == [id |-> Head(scanQueue), ext |-> "json"] IN
       /\ processNewTile(p)
       /\ startupIds' = IF Outcome(p) = "stored"
                          THEN startupIds \cup {p.id} ELSE startupIds
       /\ dropped' = IF Outcome(p) = "no_tif"
                       THEN dropped \cup {p.id} ELSE dropped
  /\ scanQueue' = Tail(scanQueue)
  /\ response' = NoResponse
  /\ UNCHANGED <<handled, clientVars>>
  /\ UNCHANGED <<phase, diskVars, sessionVars>>

\* chokidar.watch(..., ignoreInitial: true) and the three handlers installed
WatchStart ==
  /\ phase = "scan"
  /\ scanQueue = <<>>
  /\ phase' = "live"
  /\ response' = NoResponse
  /\ UNCHANGED <<handled, clientVars>>
  /\ UNCHANGED <<scanQueue, diskVars, now, tilesMetadata, sessionVars, sent,
                 regLog, dropped, startupIds>>

\* ------------------------------------------------------------- live events
\* the event chokidar raises for a write: none before the watcher runs
\* (ignoreInitial), add for a new path, change for a known one; writes to a
\* path whose event is still debounced (awaitWriteFinish) raise no second one
EventFor(p, existed) ==
  IF phase # "live" THEN "none"
  ELSE IF pending[p] # "none" THEN pending[p]
  ELSE IF existed THEN "change" ELSE "add"

\* the producer writes <i>.tif (before the service starts, or while it runs)
WriteTif(i) ==
  /\ phase \in {"boot", "live"}
  /\ writes < MaxWrites
  /\ LET p == [id |-> i, ext |-> "tif"] IN
       pending' = [pending EXCEPT ![p] = EventFor(p, tif[i])]
  /\ tif' = [tif EXCEPT ![i] = TRUE]
  /\ writes' = writes + 1
  /\ response' = NoResponse
  /\ UNCHANGED <<handled, clientVars>>
  /\ UNCHANGED <<phase, scanQueue, json, now, tilesMetadata, sessionVars,
                 sent, regLog, dropped, startupIds>>

\* the producer writes <i>.json (before the service starts, or while it runs)
WriteJson(i, content) ==
  /\ phase \in {"boot", "live"}
  /\ writes < MaxWrites
  /\ LET p == [id |-> i, ext |-> "json"] IN
       pending' = [pending EXCEPT ![p] = EventFor(p, json[i] # "absent")]
  /\ json' = [json EXCEPT ![i] = content]
  /\ writes' = writes + 1
  /\ response' = NoResponse
  /\ UNCHANGED <<handled, clientVars>>
  /\ UNCHANGED <<phase, scanQueue, tif, now, tilesMetadata, sessionVars,
                 sent, regLog, dropped, startupIds>>

\* watcher.on('add' | 'change', processNewTile)
HandleEvent(p) ==
  /\ phase = "live"
  /\ pending[p] # "none"
  /\ processNewTile(p)
  /\ pending' = [pending EXCEPT ![p] = "none"]
  /\ dropped' = IF Outcome(p) = "no_tif" THEN dropped \cup {p.id} ELSE dropped
  /\ response' = NoResponse
  /\ UNCHANGED <<handled, clientVars>>
  /\ UNCHANGED <<phase, scanQueue, tif, json, writes, sessionVars,
                 startupIds>>

\* ---------------------------------------------------------------- sessions
\* what the connection handler sends to the new session
ConnectionMessages == <<InitialMsg(tilesMetadata)>>

\* wss.on('connection') of a service that accepts sessions before listen()
\* has called back
Connection_Early(s) ==
  /\ readyState[s] = "NONE"
  /\ \A t \in Sessions : t < s => readyState[t] # "NONE"
  /\ clients' = clients \cup {s}
  /\ readyState' = [readyState EXCEPT ![s] = "OPEN"]
  /\ sent' = [sent EXCEPT ![s] = sent[s] \o ConnectionMessages]
  /\ openAt' = [openAt EXCEPT ![s] = Len(regLog)]
  /\ response' = NoResponse
  /\ UNCHANGED <<handled, clientVars>>
  /\ UNCHANGED <<phase, scanQueue, diskVars, now, tilesMetadata, regLog,
                 dropped, startupIds>>

\* wss.on('connection'): the server accepts sessions once listen() has called
\* back, and that callback runs initializeWatcher to its end first; sessions
\* connect in the order of their numbers
Connection(s) ==
  /\ phase = "live"
  /\ readyState[s] = "NONE"
  /\ \A t \in Sessions : t < s => readyState[t] # "NONE"
  /\ clients' = clients \cup {s}
  /\ readyState' = [readyState EXCEPT ![s] = "OPEN"]
  /\ sent' = [sent EXCEPT ![s] = sent[s] \o ConnectionMessages]
  /\ openAt' = [openAt EXCEPT ![s] = Len(regLog)]
  /\ response' = NoResponse
  /\ UNCHANGED <<handled, clientVars>>
  /\ UNCHANGED <<phase, scanQueue, diskVars, now, tilesMetadata, regLog,
                 dropped, startupIds>>

\* the socket of session s leaves OPEN; its close event is not yet handled
SocketCloses(s) ==
  /\ readyState[s] = "OPEN"
  /\ readyState' = [readyState EXCEPT ![s] = "CLOSED"]
  /\ response' = NoResponse
  /\ UNCHANGED <<handled, clientVars>>
  /\ UNCHANGED <<phase, scanQueue, diskVars, now, tilesMetadata, clients,
                 sent, regLog, openAt, dropped, startupIds>>

\* clients.clear() in place of clients.delete(ws)
clientsDelete_Clear(s) == {}

\* clients.delete(ws)
clientsDelete(s) == clients \ {s}

\* ws.on('close')
OnClose(s) ==
  /\ readyState[s] = "CLOSED"
  /\ s \in clients
  /\ clients' = clientsDelete(s)
  /\ response' = NoResponse
  /\ handled' = handled \cup {s}
  /\ UNCHANGED clientVars
  /\ UNCHANGED <<phase, scanQueue, diskVars, now, tilesMetadata, readyState,
                 sent, regLog, openAt, dropped, startupIds>>

\* ws.on('error'): the socket that raised it is on its way to closing
OnError(s) ==
  /\ s \in clients
  /\ clients' = clientsDelete(s)
  /\ readyState' = [readyState EXCEPT ![s] = "CLOSED"]
  /\ response' = NoResponse
  /\ handled' = handled \cup {s}
  /\ UNCHANGED clientVars
  /\ UNCHANGED <<phase, scanQueue, diskVars, now, tilesMetadata, sent,
                 regLog, openAt, dropped, startupIds>>

\* ----------------------------------------------------------------- queries
\* GET /api/tiles
GetTiles ==
  /\ phase = "live"
  /\ response' = [status |-> 200, tiles |-> tilesMetadata]
  /\ UNCHANGED <<handled, clientVars>>
  /\ UNCHANGED <<phase, scanQueue, diskVars, now, tilesMetadata, sessionVars,
                 sent, regLog, dropped, startupIds>>

\* GET /api/tiles/:id without the test of the lookup's result
GetTile_NoCheck(i) ==
  /\ phase = "live"
  /\ response' = IF Has(tilesMetadata, i)
                   THEN [status |-> 200, tiles |-> <<Get(tilesMetadata, i)>>]
                   ELSE [status |-> 200, tiles |-> <<>>]
  /\ UNCHANGED <<handled, clientVars>>
  /\ UNCHANGED <<phase, scanQueue, diskVars, now, tilesMetadata, sessionVars,
                 sent, regLog, dropped, startupIds>>

\* GET /api/tiles/:id
GetTile(i) ==
  /\ phase = "live"
  /\ response' = IF Has(tilesMetadata, i)
                   THEN [status |-> 200, tiles |-> <<Get(tilesMetadata, i)>>]
                   ELSE [status |-> 404, tiles |-> <<>>]
  /\ UNCHANGED <<handled, clientVars>>
  /\ UNCHANGED <<phase, scanQueue, diskVars, now, tilesMetadata, sessionVars,
                 sent, regLog, dropped, startupIds>>

Next ==
  \/ ReadDir
  \/ ScanStep
  \/ WatchStart
  \/ \E i \in TileIds : WriteTif(i)
  \/ \E i \in TileIds, c \in Written : WriteJson(i, c)
  \/ \E p \in Paths : HandleEvent(p)
  \/ \E s \in 1..MaxSessions : Connection(s)
  \/ \E s \in Sessions : SocketCloses(s)
  \/ \E s \in Sessions : OnClose(s)
  \/ \E s \in Sessions : OnError(s)

Spec == Init /\ [][Next]_vars

\* the service with several sessions, fed by a producer that writes
\* well-formed sidecars only, for the tile ids 1..MaxHubTiles, MaxHubWrites
\* files in all
HubNext ==
  \/ ReadDir
  \/ ScanStep
  \/ WatchStart
  \/ \E i \in 1..MaxHubTiles : writes < MaxHubWrites /\ WriteTif(i)
  \/ \E i \in 1..MaxHubTiles : writes < MaxHubWrites /\ WriteJson(i, "valid")
  \/ \E p \in Paths : HandleEvent(p)
  \/ \E s \in 1..MaxHubSessions : Connection(s)
  \/ \E s \in Sessions : SocketCloses(s)
  \/ \E s \in Sessions : OnClose(s)
  \/ \E s \in Sessions : OnError(s)

HubSpec == Init /\ [][HubNext]_vars

\* ws emits close once the socket has closed, and the event loop runs the
\* handler
HubFairSpec == HubSpec /\ \A s \in Sessions : WF_vars(OnClose(s))

\* the service with its read-only query endpoints
QueryNext ==
  \/ Next
  \/ GetTiles
  \/ \E i \in TileIds : GetTile(i)

QuerySpec == Init /\ [][QueryNext]_vars

\* ------------------------------------------------------ client: the hook
\* the delay of the reconnect timeout, in ms
ReconnectDelay == 2000

timerVars   == <<scanTimers, settleTimers>>
queueVars   == <<pendingTilesRef, processingRef, scanLog>>
tileVars    == <<tiles, visibleTiles, arrivals>>
reconnVars  == <<reconnectTimeoutRef, reconnectTimers>>
\* what no step of the hook writes: the history of interrupted scans and the
\* state of DroneLayer
staleVars   == <<interrupted, absorbed, layerVars>>

\* processNextTile() taking the newest tile of the queue: pop() for shift()
processNextTile_Pop(q, proc) ==
  IF proc \/ q = <<>>
    THEN /\ pendingTilesRef' = q
         /\ processingRef' = proc
         /\ UNCHANGED <<droneState, scanTimers, scanLog>>
    ELSE LET tile == q[Len(q)] IN
         /\ processingRef' = TRUE
         /\ pendingTilesRef' = SubSeq(q, 1, Len(q) - 1)
         /\ droneState' = SetState(droneState,
                                   [position |-> Center(tile),
                                    isScanning |-> TRUE,
                                    targetTile |-> tile])
         /\ scanTimers' = Append(scanTimers, tile)
         /\ scanLog' = Append(scanLog, tile)

\* processNextTile() without the test of processingRef
processNextTile_NoGuard(q, proc) ==
  IF q = <<>>
    THEN /\ pendingTilesRef' = q
         /\ processingRef' = proc
         /\ UNCHANGED <<droneState, scanTimers, scanLog>>
    ELSE LET tile == Head(q) IN
         /\ processingRef' = TRUE
         /\ pendingTilesRef' = Tail(q)
         /\ droneState' = SetState(droneState,
                                   [position |-> Center(tile),
                                    isScanning |-> TRUE,
                                    targetTile |-> tile])
         /\ scanTimers' = Append(scanTimers, tile)
         /\ scanLog' = Append(scanLog, tile)

\* the tile object carries a bbox (tile.bbox is not undefined)
HasBbox(tile) == "bbox" \in DOMAIN tile

\* processNextTile(), entered with the queue q and the processing flag proc;
\* for a tile without bbox the read of tile.bbox[1] throws, after the flag was
\* set and the tile was shifted off the queue
processNextTile(q, proc) ==
  IF proc \/ q = <<>>
    THEN /\ pendingTilesRef' = q
         /\ processingRef' = proc
         /\ UNCHANGED <<droneState, scanTimers, scanLog>>
    ELSE LET tile == Head(q) IN
         /\ processingRef' = TRUE
         /\ pendingTilesRef' = Tail(q)
         /\ IF HasBbox(tile)
              THEN /\ droneState' = SetState(droneState,
                                             [position |-> Center(tile),
                                              isScanning |-> TRUE,
                                              targetTile |-> tile])
                   /\ scanTimers' = Append(scanTimers, tile)
                   /\ scanLog' = Append(scanLog, tile)
              ELSE UNCHANGED <<droneState, scanTimers, scanLog>>

\* the scan timeout without the setDroneState that clears isScanning
ScanTimerFires_KeepFlag ==
  /\ scanTimers # <<>>
  /\ LET tile == Head(scanTimers) IN
       visibleTiles' = SetState(visibleTiles, MapPut(visibleTiles, tile))
  /\ droneState' = droneState
  /\ scanTimers' = Tail(scanTimers)
  /\ settleTimers' = settleTimers + 1
  /\ UNCHANGED <<mounted, sockets, wsRef, snapshotDue, tiles, isConnected,
                 reconnVars, queueVars, arrivals, serverVars>>

\* the timeout of SCANNING_DURATION fires for the tile it captured
ScanTimerFires ==
  /\ scanTimers # <<>>
  /\ LET tile == Head(scanTimers) IN
       visibleTiles' = SetState(visibleTiles, MapPut(visibleTiles, tile))
  /\ droneState' = SetState(droneState, [droneState EXCEPT !.isScanning = FALSE])
  /\ scanTimers' = Tail(scanTimers)
  /\ settleTimers' = settleTimers + 1
  /\ UNCHANGED <<mounted, sockets, wsRef, snapshotDue, tiles, isConnected,
                 reconnVars, queueVars, arrivals, serverVars>>

\* the timeout of 300 ms fires
SettleTimerFires ==
  /\ settleTimers > 0
  /\ settleTimers' = settleTimers - 1
  /\ processNextTile(pendingTilesRef, FALSE)
  /\ UNCHANGED <<mounted, sockets, wsRef, snapshotDue, tileVars, isConnected,
                 reconnVars, serverVars>>

\* connect(): a new socket unless the current one is OPEN
connect ==
  IF wsRef # 0 /\ sockets[wsRef] = "OPEN"
    THEN UNCHANGED <<sockets, wsRef>>
    ELSE \E k \in SocketIds :
           /\ sockets[k] = "NONE"
           /\ \A j \in SocketIds : j < k => sockets[j] # "NONE"
           /\ sockets' = [sockets EXCEPT ![k] = "CONNECTING"]
           /\ wsRef' = k

\* the effect runs
Mount ==
  /\ mounted = "no"
  /\ mounted' = "yes"
  /\ connect
  /\ UNCHANGED <<snapshotDue, tileVars, isConnected, droneState, reconnVars,
                 queueVars, timerVars, serverVars>>

\* ws.onopen of socket k
onopen(k) ==
  /\ sockets[k] = "CONNECTING"
  /\ sockets' = [sockets EXCEPT ![k] = "OPEN"]
  /\ snapshotDue' = snapshotDue \cup {k}
  /\ isConnected' = SetState(isConnected, TRUE)
  /\ UNCHANGED <<mounted, wsRef, tileVars, droneState, reconnVars, queueVars,
                 timerVars, serverVars>>

\* ws.onclose without setIsConnected(false)
onclose_KeepFlag(k) ==
  /\ UNCHANGED isConnected
  /\ reconnectTimers' =
       reconnectTimers \cup {[handle |-> k, delay |-> ReconnectDelay]}
  /\ reconnectTimeoutRef' = k

\* ws.onclose that schedules no reconnect
onclose_NoRetry(k) ==
  /\ isConnected' = SetState(isConnected, FALSE)
  /\ UNCHANGED <<reconnectTimers, reconnectTimeoutRef>>

\* ws.onclose of socket k
onclose(k) ==
  /\ isConnected' = SetState(isConnected, FALSE)
  /\ reconnectTimers' =
       reconnectTimers \cup {[handle |-> k, delay |-> ReconnectDelay]}
  /\ reconnectTimeoutRef' = k

\* the connection of socket k cannot be established: the error event, which
\* ws.onerror only logs, then the close event
ConnectFails(k) ==
  /\ sockets[k] = "CONNECTING"
  /\ sockets' = [sockets EXCEPT ![k] = "CLOSED"]
  /\ onclose(k)
  /\ UNCHANGED <<mounted, wsRef, snapshotDue, tileVars, droneState, queueVars,
                 timerVars, serverVars>>

\* the connection of socket k is closed: the close event
Closes(k) ==
  /\ sockets[k] \in {"OPEN", "CLOSING"}
  /\ sockets' = [sockets EXCEPT ![k] = "CLOSED"]
  /\ snapshotDue' = snapshotDue \ {k}
  /\ onclose(k)
  /\ UNCHANGED <<mounted, wsRef, tileVars, droneState, queueVars, timerVars,
                 serverVars>>

\* the reconnect scheduled with setInterval: firing does not remove it
ReconnectTimerFires_Interval(h) ==
  /\ \E t \in reconnectTimers : t.handle = h
  /\ reconnectTimers' = reconnectTimers
  /\ connect
  /\ UNCHANGED <<mounted, snapshotDue, tileVars, isConnected, droneState,
                 reconnectTimeoutRef, queueVars, timerVars, serverVars>>

\* the reconnect timeout with handle h fires
ReconnectTimerFires(h) ==
  /\ \E t \in reconnectTimers : t.handle = h
  /\ reconnectTimers' = {t \in reconnectTimers : t.handle # h}
  /\ connect
  /\ UNCHANGED <<mounted, snapshotDue, tileVars, isConnected, droneState,
                 reconnectTimeoutRef, queueVars, timerVars, serverVars>>

\* ws.onmessage of socket k, message {type: 'initial', tiles: ts}
ReceiveInitial(k, ts) ==
  /\ sockets[k] = "OPEN"
  /\ k \in snapshotDue
  /\ snapshotDue' = snapshotDue \ {k}
  /\ IF Len(ts) > 0
       THEN LET sorted == SortTiles(ts)
                lastTile == sorted[Len(sorted)] IN
            /\ tiles' = SetState(tiles, NewMap(sorted))
            /\ visibleTiles' = SetState(visibleTiles, NewMap(sorted))
            /\ droneState' = SetState(droneState,
                                      [position |-> Center(lastTile),
                                       isScanning |-> FALSE,
                                       targetTile |-> lastTile])
       ELSE UNCHANGED <<tiles, visibleTiles, droneState>>
  /\ UNCHANGED <<mounted, sockets, wsRef, isConnected, reconnVars, queueVars,
                 timerVars, arrivals, serverVars>>

\* the new_tile handler rendering the tile directly: setVisibleTiles as well
ReceiveNewTile_Render(k, tile) ==
  /\ sockets[k] = "OPEN"
  /\ k \notin snapshotDue
  /\ Len(arrivals) < MaxEvents
  /\ arrivals' = Append(arrivals, tile)
  /\ tiles' = SetState(tiles, MapPut(tiles, tile))
  /\ visibleTiles' = SetState(visibleTiles, MapPut(visibleTiles, tile))
  /\ processNextTile(Append(pendingTilesRef, tile), processingRef)
  /\ UNCHANGED <<mounted, sockets, wsRef, snapshotDue, isConnected,
                 reconnVars, settleTimers, serverVars>>

\* the new_tile handler starting the new tile's scan at once, whatever
\* processingRef says
ReceiveNewTile_Preempt(k, tile) ==
  /\ sockets[k] = "OPEN"
  /\ k \notin snapshotDue
  /\ Len(arrivals) < MaxEvents
  /\ arrivals' = Append(arrivals, tile)
  /\ tiles' = SetState(tiles, MapPut(tiles, tile))
  /\ processNextTile(<<tile>> \o pendingTilesRef, FALSE)
  /\ UNCHANGED <<mounted, sockets, wsRef, snapshotDue, visibleTiles,
                 isConnected, reconnVars, settleTimers, serverVars>>

\* ws.onmessage of socket k, message {type: 'new_tile', tile: tile}
ReceiveNewTile(k, tile) ==
  /\ sockets[k] = "OPEN"
  /\ k \notin snapshotDue
  /\ Len(arrivals) < MaxEvents
  /\ arrivals' = Append(arrivals, tile)
  /\ tiles' = SetState(tiles, MapPut(tiles, tile))
  /\ processNextTile(Append(pendingTilesRef, tile), processingRef)
  /\ UNCHANGED <<mounted, sockets, wsRef, snapshotDue, visibleTiles,
                 isConnected, reconnVars, settleTimers, serverVars>>

\* the cleanup of the effect
Unmount ==
  /\ mounted = "yes"
  /\ mounted' = "gone"
  /\ reconnectTimers' =
       {t \in reconnectTimers : t.handle # reconnectTimeoutRef}
  /\ sockets' = IF wsRef # 0 /\ sockets[wsRef] \in {"CONNECTING", "OPEN"}
                  THEN [sockets EXCEPT ![wsRef] = "CLOSING"]
                  ELSE sockets
  /\ UNCHANGED <<wsRef, snapshotDue, tileVars, isConnected, droneState,
                 reconnectTimeoutRef, queueVars, timerVars, serverVars>>

ClientNext ==
  \/ Mount /\ UNCHANGED staleVars
  \/ \E k \in SocketIds : onopen(k) /\ UNCHANGED staleVars
  \/ \E k \in SocketIds : ConnectFails(k) /\ UNCHANGED staleVars
  \/ \E k \in SocketIds : Closes(k) /\ UNCHANGED staleVars
  \/ \E h \in SocketIds : ReconnectTimerFires(h) /\ UNCHANGED staleVars
  \/ \E k \in SocketIds, ts \in Snapshots :
       ReceiveInitial(k, ts) /\ UNCHANGED staleVars
  \/ \E k \in SocketIds, tile \in ClientTiles :
       ReceiveNewTile(k, tile) /\ UNCHANGED staleVars
  \/ ScanTimerFires /\ UNCHANGED staleVars
  \/ SettleTimerFires /\ UNCHANGED staleVars
  \/ Unmount /\ UNCHANGED staleVars

ClientSpec == Init /\ [][ClientNext]_vars

\* a pending reconnect timeout fires
ClientFairSpec ==
  ClientSpec /\ \A h \in SocketIds :
                 WF_vars(ReconnectTimerFires(h) /\ UNCHANGED staleVars)

\* the close event of socket k, recording the tiles whose scan it interrupts
Disconnect(k) ==
  /\ Closes(k)
  /\ interrupted' =
       interrupted \cup {scanTimers[n].id : n \in 1..Len(scanTimers)}
  /\ UNCHANGED <<absorbed, layerVars>>

\* the 'initial' message that follows, recording the interrupted tiles it holds
Resync(k, ts) ==
  /\ ReceiveInitial(k, ts)
  /\ absorbed' =
       absorbed \cup {i \in interrupted : \E n \in 1..Len(ts) : ts[n].id = i}
  /\ interrupted' = {}
  /\ UNCHANGED layerVars

\* the hook, with the history of interrupted scans
StaleNext ==
  \/ Mount /\ UNCHANGED staleVars
  \/ \E k \in SocketIds : onopen(k) /\ UNCHANGED staleVars
  \/ \E k \in SocketIds : ConnectFails(k) /\ UNCHANGED staleVars
  \/ \E k \in SocketIds : Disconnect(k)
  \/ \E h \in SocketIds : ReconnectTimerFires(h) /\ UNCHANGED staleVars
  \/ \E k \in SocketIds, ts \in Snapshots : Resync(k, ts)
  \/ \E k \in SocketIds, tile \in ClientTiles :
       ReceiveNewTile(k, tile) /\ UNCHANGED staleVars
  \/ ScanTimerFires /\ UNCHANGED staleVars
  \/ SettleTimerFires /\ UNCHANGED staleVars
  \/ Unmount /\ UNCHANGED staleVars

StaleSpec == Init /\ [][StaleNext]_vars

\* ---------------------------------------------------- client: DroneLayer
\* tiles.slice(n)
Slice(q, n) == IF n >= Len(q) THEN <<>> ELSE SubSeq(q, n + 1, Len(q))

\* Array.from(new Map(prev).set(tile.id, tile).values()): a present id keeps
\* its place in the list, a new one goes to the end
ListPut(q, tile) ==
  IF \E n \in 1..Len(q) : q[n].id = tile.id
    THEN [n \in 1..Len(q) |-> IF q[n].id = tile.id THEN tile ELSE q[n]]
    ELSE Append(q, tile)

\* every non-empty message.tiles over the tiles of DroneLayer: no id twice
LayerSnapshots ==
  UNION {{q \in [1..n -> LayerTiles] :
            \A a, b \in 1..n : a # b => q[a].id # q[b].id} : n \in 1..MaxLayerTiles}

\* the effect on [map, tiles, titilerUrl], run with the tiles list q
DroneLayerEffect(q, ready) ==
  IF ~ready
    THEN UNCHANGED <<layersRef, processedCountRef, mapLayers>>
    ELSE LET newTiles == Slice(q, processedCountRef)
             added == {newTiles[n].id : n \in 1..Len(newTiles)} \ layersRef IN
         /\ layersRef' = layersRef \cup added
         /\ mapLayers' = [i \in LayerIds |->
                            IF i \in added THEN mapLayers[i] + 1 ELSE mapLayers[i]]
         /\ processedCountRef' = Len(q)

\* the Map component provides the map: DroneLayer renders again
MapReady ==
  /\ ~map
  /\ map' = TRUE
  /\ DroneLayerEffect(layerTiles, TRUE)
  /\ UNCHANGED <<layerTiles, serverVars, hookVars>>

\* a scan completed: visibleTiles got one tile, DroneLayer renders again
TileRevealed(tile) ==
  /\ layerTiles' = ListPut(layerTiles, tile)
  /\ DroneLayerEffect(layerTiles', map)
  /\ UNCHANGED <<map, serverVars, hookVars>>

\* a Snapshot was handled: visibleTiles is the Snapshot's tiles sorted by row
\* and col, DroneLayer renders again
TilesReplaced(ts) ==
  /\ layerTiles' = SortTiles(ts)
  /\ DroneLayerEffect(layerTiles', map)
  /\ UNCHANGED <<map, serverVars, hookVars>>

LayerNext ==
  \/ MapReady
  \/ \E tile \in LayerTiles : TileRevealed(tile)
  \/ \E ts \in LayerSnapshots : TilesReplaced(ts)

LayerSpec == Init /\ [][LayerNext]_vars

TypeOK ==
  /\ phase \in {"boot", "scan", "live"}
  /\ tif \in [TileIds -> BOOLEAN]
  /\ json \in [TileIds -> Contents]
  /\ clients \subseteq Sessions
  /\ now \in 1..MaxTime
  /\ Ids(tilesMetadata) \subseteq TileIds

\* ------------------------------------------------------- claim vocabulary
SeqSet(q) == {q[k] : k \in 1..Len(q)}

NoIdTwice(q) == \A a, b \in 1..Len(q) : q[a].id = q[b].id => a = b

\* the first message sent to a session that connected
SnapshotOf(s) == sent[s][1]

\* the ChangeEvents sent to s, in order
ChangeEvents(s) == SelectSeq(sent[s], LAMBDA m : m.type = "new_tile")

\* how many entries of q carry tile id i
CountId(q, i) == Cardinality({k \in 1..Len(q) : q[k].id = i})

\* how many ChangeEvents for tile id i were sent to s
CountEvents(s, i) ==
  Cardinality({k \in 1..Len(sent[s]) :
                 sent[s][k].type = "new_tile" /\ sent[s][k].tiles[1].id = i})

JsonPath(i) == [id |-> i, ext |-> "json"]
TifPath(i)  == [id |-> i, ext |-> "tif"]

\* this step is processNewTile(p): a live add/change event for p is handled,
\* or the startup scan processes the sidecar p
Processed(p) ==
  \/ /\ phase = "live"
     /\ pending[p] # "none"
     /\ pending'[p] = "none"
  \/ /\ phase = "scan"
     /\ scanQueue # <<>>
     /\ p = JsonPath(Head(scanQueue))
     /\ scanQueue' = Tail(scanQueue)

\* every registration so far stored the metadata record of a well-formed
\* sidecar (C1-C3, C5, C6 and C9 are stated for such runs, so that what they
\* show does not rest on the registration of ill-formed sidecars, C10)
WellFormed == \A k \in 1..Len(regLog) : regLog[k].meta = "tile"

\* C1: the Snapshot a session is sent when it opens holds exactly the
\* TileRecords registered before that open: every one, none registered later,
\* no id twice.
C1_SnapshotCompleteness ==
  \A s \in Sessions : (WellFormed /\ readyState[s] # "NONE") =>
    /\ sent[s] # <<>>
    /\ SnapshotOf(s).type = "initial"
    /\ SeqSet(SnapshotOf(s).tiles) = {regLog[k] : k \in 1..openAt[s]}
    /\ NoIdTwice(SnapshotOf(s).tiles)

\* C2: a session that is open is sent exactly one ChangeEvent for every
\* registration made since it opened, carrying only the registered record, and
\* never two ChangeEvents for the same tile id.
C2_NoMissedEvents ==
  \A s \in Sessions : (WellFormed /\ readyState[s] = "OPEN") =>
    LET ev == ChangeEvents(s) IN
      /\ Len(ev) = Len(regLog) - openAt[s]
      /\ \A k \in 1..Len(ev) : ev[k].tiles = <<regLog[openAt[s] + k]>>
      /\ \A a, b \in 1..Len(ev) :
           ev[a].tiles[1].id = ev[b].tiles[1].id => a = b

\* C3: every registered tile reaches a session that stays open exactly once:
\* in its Snapshot or as one later ChangeEvent, never both, never neither.
C3_JoinAtomicity ==
  \A s \in Sessions : (WellFormed /\ readyState[s] = "OPEN") =>
    \A i \in Ids(regLog) :
      CountId(SnapshotOf(s).tiles, i) + CountEvents(s, i) = 1

\* C4: every session is sent exactly one Snapshot and it is the first message
\* sent to it; no ChangeEvent is sent to a session before its Snapshot.
C4_SnapshotFirst ==
  \A s \in Sessions :
    /\ readyState[s] = "NONE" => sent[s] = <<>>
    /\ readyState[s] # "NONE" =>
         /\ sent[s] # <<>>
         /\ sent[s][1].type = "initial"
         /\ \A k \in 2..Len(sent[s]) : sent[s][k].type = "new_tile"

\* a session was sent its Snapshot and then a ChangeEvent
C4_Witness ==
  \E s \in Sessions : Len(sent[s]) >= 2 /\ sent[s][2].type = "new_tile"

\* C5: processNewTile on a valid, paired sidecar whose id is already in the
\* registry is a no-op: the registry (size, records, timestamps) is unchanged
\* and still holds what the first registration of that id stored.
C5_IdempotentRegistration ==
  [][\A p \in Paths :
       (/\ WellFormed
        /\ Processed(p)
        /\ IsSidecar(p)
        /\ tif[p.id]
        /\ json[p.id] = "valid"
        /\ Has(tilesMetadata, p.id))
       => /\ tilesMetadata' = tilesMetadata
          /\ Get(tilesMetadata', p.id) =
               regLog[CHOOSE k \in 1..Len(regLog) :
                        /\ regLog[k].id = p.id
                        /\ \A j \in 1..(k - 1) : regLog[j].id # p.id]]_vars

\* C6: an id that is registered stays registered and keeps the same record;
\* no step updates or deletes an entry.
C6_AppendOnly ==
  [][WellFormed' =>
       \A k \in 1..Len(tilesMetadata) :
         /\ Has(tilesMetadata', tilesMetadata[k].id)
         /\ Get(tilesMetadata', tilesMetadata[k].id) = tilesMetadata[k]]_vars

\* C7: a sidecar processed while its raster does not exist registers nothing,
\* sends no ChangeEvent, leaves the registry and the broadcast set unchanged,
\* and queues nothing for later.
C7_PairingGateMissingRaster ==
  [][\A p \in Paths :
       (Processed(p) /\ IsSidecar(p) /\ ~tif[p.id])
       => /\ UNCHANGED <<tilesMetadata, regLog, sent, clients>>
          /\ \A q \in Paths : pending'[q] \in {pending[q], "none"}
          /\ Len(scanQueue') <= Len(scanQueue)]_vars

\* a valid sidecar was dropped for its missing raster while a session was
\* open to hear of a registration
C7_Witness ==
  \E i \in dropped :
    /\ json[i] = "valid"
    /\ ~tif[i]
    /\ pending[JsonPath(i)] = "none"
    /\ ~Has(tilesMetadata, i)
    /\ broadcastTargets # {}

\* C8: when a tile's sidecar was dropped for its missing raster, the event for
\* the raster file (no further sidecar event outstanding) registers the tile,
\* exactly once.
C8_RasterArrivesLater ==
  [][\A i \in TileIds :
       (/\ Processed(TifPath(i))
        /\ i \in dropped
        /\ json[i] = "valid"
        /\ pending[JsonPath(i)] = "none"
        /\ ~Has(tilesMetadata, i))
       => /\ Has(tilesMetadata', i)
          /\ CountId(regLog', i) = 1]_vars

\* C9: a live add or change event for a sidecar that the startup scan
\* registered causes no second registration and no ChangeEvent.
C9_StartupSuppression ==
  [][\A p \in Paths :
       (/\ WellFormed'
        /\ phase = "live"
        /\ Processed(p)
        /\ IsSidecar(p)
        /\ p.id \in startupIds)
       => UNCHANGED <<tilesMetadata, regLog, sent>>]_vars

\* C10: a sidecar whose content is not the expected metadata record is
\* dropped: no registration, no ChangeEvent, registry and broadcast set
\* unchanged.
C10_MalformedSidecar ==
  [][\A p \in Paths :
       (Processed(p) /\ IsSidecar(p) /\ json[p.id] # "valid")
       => UNCHANGED <<tilesMetadata, regLog, sent, clients>>]_vars
\* one more record was registered by this step
Registers == Len(regLog') = Len(regLog) + 1

\* C11: a registration's ChangeEvent goes to every session of the broadcast
\* set that is open, whatever the state of the others; a session whose socket
\* is gone gets neither this ChangeEvent nor any later message (no retry), and
\* it leaves the broadcast set.
C11_SendFailureIsolation ==
  /\ [][Registers =>
          \A s \in Sessions :
            sent'[s] = IF s \in clients /\ readyState[s] = "OPEN"
                       THEN Append(sent[s], NewTileMsg(regLog'[Len(regLog')]))
                       ELSE sent[s]]_vars
  /\ [][\A s \in Sessions :
          readyState[s] = "CLOSED" =>
            sent'[s] = sent[s] /\ readyState'[s] = "CLOSED"]_vars
  /\ \A s \in Sessions :
       (s \in clients /\ readyState[s] = "CLOSED") ~> (s \notin clients)

\* two sessions are in the broadcast set, one with its socket gone: it missed
\* a ChangeEvent that the open one was sent
C11_Witness ==
  \E s, t \in Sessions :
    /\ {s, t} \subseteq clients
    /\ readyState[s] = "CLOSED"
    /\ readyState[t] = "OPEN"
    /\ Len(ChangeEvents(s)) < Len(regLog) - openAt[s]
    /\ Len(ChangeEvents(t)) = Len(regLog) - openAt[t]
    /\ Len(ChangeEvents(t)) > 0

\* C12: a session whose close or error event was handled is not in the
\* broadcast set and is sent nothing more; the handler's step changes neither
\* the registry nor what was sent, and removes no other session.
C12_SessionRemoval ==
  /\ [](\A s \in handled : s \notin clients)
  /\ [][\A s \in handled : sent'[s] = sent[s]]_vars
  /\ [][\A s \in handled' \ handled :
          /\ tilesMetadata' = tilesMetadata
          /\ regLog' = regLog
          /\ sent' = sent
          /\ clients' \ {s} = clients \ {s}]_vars

\* a session was removed while another stayed in the broadcast set, and the
\* one that stayed was sent a ChangeEvent the removed one was not
C12_Witness ==
  \E s \in handled, t \in clients :
    /\ readyState[t] = "OPEN"
    /\ Len(ChangeEvents(t)) > 0
    /\ Len(ChangeEvents(t)) = Len(regLog) - openAt[t]
    /\ Len(ChangeEvents(s)) < Len(regLog) - openAt[s]

\* ------------------------------------------------- client claim vocabulary
\* this step dequeued a tile and started its scan
StartsScan == Len(scanLog') = Len(scanLog) + 1

\* this step handled a ChangeEvent
HandlesChangeEvent == Len(arrivals') = Len(arrivals) + 1

\* no scan cycle is in progress
CycleIdle == ~processingRef /\ scanTimers = <<>> /\ settleTimers = 0

\* C13: the tiles enter scanning in the order their ChangeEvents arrived, none
\* skipped and none reordered (the tiles scanned so far followed by the queue
\* are the arrivals); each one enters scanning from a drone that is not
\* scanning, becomes the target, and the drone is not scanning again once its
\* scan timer fires.
C13_FifoAnimation ==
  /\ [](scanLog \o pendingTilesRef = arrivals)
  /\ [][(StartsScan /\ mounted = "yes") =>
          /\ ~droneState.isScanning
          /\ droneState'.isScanning
          /\ droneState'.targetTile = arrivals'[Len(scanLog')]
          /\ droneState'.position = Center(arrivals'[Len(scanLog')])]_vars
  /\ [][(Len(scanTimers') < Len(scanTimers) /\ mounted = "yes") =>
          ~droneState'.isScanning]_vars

\* three ChangeEvents, not all for the same tile, arrived and were scanned in
\* their order; the drone is idle again
C13_Witness ==
  /\ mounted = "yes"
  /\ Len(arrivals) = 3
  /\ arrivals[1] # arrivals[2]
  /\ scanLog = arrivals
  /\ CycleIdle
  /\ ~droneState.isScanning
  /\ droneState.targetTile = arrivals[3]

\* C14: at most one scan cycle (a pending scan timer or a pending settle
\* timer) exists at any time, and exactly when processingRef is set; a tile
\* is dequeued only when the previous tile's scan timer and settle timer have
\* both fired.
C14_OneScanAtATime ==
  /\ [](Len(scanTimers) + settleTimers <= 1)
  /\ [](processingRef <=> (Len(scanTimers) + settleTimers = 1))
  /\ [][StartsScan =>
          /\ scanTimers = <<>>
          /\ settleTimers' = 0
          /\ scanTimers' = <<scanLog'[Len(scanLog')]>>]_vars

\* a tile waits in the queue while the previous tile's settle delay runs,
\* after a disconnect
C14_Witness ==
  /\ pendingTilesRef # <<>>
  /\ settleTimers = 1
  /\ scanTimers = <<>>
  /\ \E k \in SocketIds : sockets[k] = "CLOSED"

\* C15: a ChangeEvent handled while a scan cycle is in progress adds its tile
\* to the known tiles and to the tail of the queue and changes nothing else:
\* the drone state, the revealed tiles and the cycle's timers are as before;
\* and when a scan timer fires, the tile it was started for is revealed.
C15_EnqueueDoesNotInterrupt ==
  /\ [][(HandlesChangeEvent /\ processingRef) =>
          LET tile == arrivals'[Len(arrivals')] IN
            /\ pendingTilesRef' = Append(pendingTilesRef, tile)
            /\ (mounted = "yes" => tiles' = MapPut(tiles, tile))
            /\ droneState' = droneState
            /\ visibleTiles' = visibleTiles
            /\ scanTimers' = scanTimers
            /\ settleTimers' = settleTimers
            /\ processingRef']_vars
  /\ [][(Len(scanTimers') < Len(scanTimers) /\ mounted = "yes") =>
          /\ scanTimers[1].id \in DOMAIN visibleTiles'
          /\ visibleTiles'[scanTimers[1].id] = scanTimers[1]]_vars

\* the drone scans a tile that is not revealed yet while a later ChangeEvent's
\* tile, already known, waits in the queue
C15_Witness ==
  /\ mounted = "yes"
  /\ Len(scanTimers) = 1
  /\ droneState.isScanning
  /\ droneState.targetTile = scanTimers[1]
  /\ scanTimers[1].id \notin DOMAIN visibleTiles
  /\ pendingTilesRef # <<>>
  /\ pendingTilesRef[Len(pendingTilesRef)] = arrivals[Len(arrivals)]
  /\ pendingTilesRef[Len(pendingTilesRef)].id \in DOMAIN tiles
  /\ pendingTilesRef[Len(pendingTilesRef)] # scanTimers[1]

\* the ids of the tiles of a message
TileIdsOf(ts) == {ts[n].id : n \in 1..Len(ts)}

\* C16: after the 'initial' handler has run for a Snapshot with the tiles ts
\* (any number, zero included), the known tiles and the revealed tiles are
\* exactly the tiles of ts and the tile count is the number of tiles in ts.
C16_SnapshotReplacesEverything ==
  [][\A k \in SocketIds, ts \in Snapshots :
       (mounted = "yes" /\ ReceiveInitial(k, ts)) =>
         /\ DOMAIN tiles' = TileIdsOf(ts)
         /\ DOMAIN visibleTiles' = TileIdsOf(ts)
         /\ Cardinality(DOMAIN tiles') = Len(ts)]_vars

\* the ids of the tiles whose scan has not completed: queued or being scanned
Unscanned == TileIdsOf(pendingTilesRef) \cup TileIdsOf(scanTimers)

\* handling a ChangeEvent for a tile that is not known makes it known at once
\* (the count rises by one), puts it in the queue or starts its scan, and
\* leaves the revealed tiles as they are
KnownAtOnce ==
  (HandlesChangeEvent /\ mounted = "yes"
     /\ arrivals'[Len(arrivals')].id \notin DOMAIN tiles) =>
    LET tile == arrivals'[Len(arrivals')] IN
      /\ DOMAIN tiles' = DOMAIN tiles \cup {tile.id}
      /\ Cardinality(DOMAIN tiles') = Cardinality(DOMAIN tiles) + 1
      /\ tiles'[tile.id] = tile
      /\ \/ pendingTilesRef' = Append(pendingTilesRef, tile)
         \/ pendingTilesRef' = <<>> /\ scanTimers' = <<tile>>
      /\ visibleTiles' = visibleTiles

\* this step is the scan timer of tile id i firing
ScanCompletes(i) ==
  /\ scanTimers # <<>>
  /\ scanTimers[1].id = i
  /\ scanTimers' = Tail(scanTimers)

\* C17: a ChangeEvent for a tile not yet known makes it known at once and
\* enqueues it without touching the revealed tiles; a tile whose scan has not
\* completed enters the revealed tiles only by the step in which its scan
\* timer fires.
C17_KnownNowRevealedLater ==
  /\ [][KnownAtOnce]_vars
  /\ [][\A i \in Unscanned :
          (mounted = "yes" /\ i \in DOMAIN visibleTiles' \ DOMAIN visibleTiles)
            => ScanCompletes(i)]_vars

\* C17, amended: as C17, but a tile whose scan has not completed also enters
\* the revealed tiles when a Snapshot that contains it is handled.
C17_Amended ==
  /\ [][KnownAtOnce]_vars
  /\ [][\A i \in Unscanned :
          (mounted = "yes" /\ i \in DOMAIN visibleTiles' \ DOMAIN visibleTiles)
            => \/ ScanCompletes(i)
               \/ \E k \in SocketIds, ts \in Snapshots :
                    ReceiveInitial(k, ts) /\ i \in TileIdsOf(ts)]_vars

\* a tile that arrived by ChangeEvent when it was not known is known and
\* being scanned, and not revealed
C17_Witness ==
  /\ mounted = "yes"
  /\ Len(scanTimers) = 1
  /\ scanTimers[1] = arrivals[Len(arrivals)]
  /\ scanTimers[1].id \in DOMAIN tiles
  /\ scanTimers[1].id \notin DOMAIN visibleTiles
  /\ Cardinality(DOMAIN tiles) = Cardinality(DOMAIN visibleTiles) + 1

\* C18: while the hook is mounted, every socket that closes, whether it was
\* open or still connecting, is followed by the creation of the next socket
\* (or by the unmount); each close schedules one reconnect timeout, always
\* with the same delay.
C18_ReconnectLoop ==
  /\ \A k \in 1..(MaxSockets - 1) :
       (sockets[k] = "CLOSED" /\ mounted = "yes")
         ~> (sockets[k + 1] # "NONE" \/ mounted = "gone")
  /\ [][\A k \in SocketIds :
          (mounted = "yes" /\ sockets[k] # "CLOSED" /\ sockets'[k] = "CLOSED")
            => [handle |-> k, delay |-> ReconnectDelay] \in reconnectTimers']_vars
  /\ [](\A t \in reconnectTimers : t.delay = ReconnectDelay)

\* two connection attempts in a row failed without ever opening, and the
\* timeout of the next attempt is pending
C18_Witness ==
  /\ mounted = "yes"
  /\ sockets[1] = "CLOSED"
  /\ sockets[2] = "CLOSED"
  /\ snapshotDue = {}
  /\ tiles = <<>>
  /\ reconnectTimers = {[handle |-> 2, delay |-> ReconnectDelay]}

\* socket k is the most recently created one
Latest(k) == sockets[k] # "NONE" /\ \A j \in SocketIds : j > k => sockets[j] = "NONE"

\* C19: isConnected is false before the hook connects, is true after a
\* socket's open event and false after its close event, and while the hook is
\* mounted it is true only if the most recently created socket is open.
C19_ConnectionFlag ==
  /\ [](mounted = "no" => ~isConnected)
  /\ [](mounted = "yes" /\ isConnected =>
          \E k \in SocketIds : Latest(k) /\ sockets[k] = "OPEN" /\ wsRef = k)
  /\ [][\A k \in SocketIds :
          (mounted = "yes" /\ sockets[k] = "CONNECTING" /\ sockets'[k] = "OPEN")
            => isConnected']_vars
  /\ [][\A k \in SocketIds :
          (mounted = "yes" /\ sockets[k] # "CLOSED" /\ sockets'[k] = "CLOSED")
            => ~isConnected']_vars

\* the flag is true again on the second socket, after the first one closed
C19_Witness ==
  /\ mounted = "yes"
  /\ isConnected
  /\ sockets[1] = "CLOSED"
  /\ sockets[2] = "OPEN"

\* C20: once the Snapshot that follows a disconnect has been handled, and it
\* held the tile that was being scanned at the disconnect, the drone is never
\* scanning with that tile as target, and the firing of that tile's scan
\* timer changes neither the revealed tiles nor the drone state.
C20_NoStaleScanning ==
  /\ [](\A i \in absorbed :
          mounted = "yes" =>
            ~(droneState.isScanning /\ droneState.targetTile = Tile(i)))
  /\ [][\A i \in absorbed :
          (mounted = "yes" /\ ScanCompletes(i)) =>
            visibleTiles' = visibleTiles /\ droneState' = droneState]_vars

\* C21: handling a Snapshot takes out of the animation queue every queued
\* tile whose id the Snapshot holds, so that no tile the Snapshot already
\* revealed is left to enter scanning from an enqueue made before it.
C21_SnapshotCancelsQueued ==
  [][\A k \in SocketIds, ts \in Snapshots :
       (mounted = "yes" /\ ReceiveInitial(k, ts)) =>
         \A n \in 1..Len(pendingTilesRef') :
           pendingTilesRef'[n].id \notin TileIdsOf(ts)]_vars

\* this step is a scan timer firing
ScanTimerStep == scanTimers # <<>> /\ scanTimers' = Tail(scanTimers)

\* C22: the handling of a Snapshot leaves the drone's position, scanning flag
\* and target as they are, and the drone state changes only in a step that
\* dequeues a tile and starts its scan or in the firing of a scan timer.
C22_DroneStateOwnership ==
  /\ [][\A k \in SocketIds, ts \in Snapshots :
          ReceiveInitial(k, ts) => droneState' = droneState]_vars
  /\ [][droneState' # droneState => (StartsScan \/ ScanTimerStep)]_vars

\* C23: when a scan timer fires with the queue empty, the drone is not
\* scanning and still has the tile just scanned as target and that tile's
\* center as position; a position that is set is never cleared to null.
C23_TerminalStateKeepsContext ==
  /\ [][(mounted = "yes" /\ ScanTimerStep /\ pendingTilesRef = <<>>) =>
          droneState' = [position |-> Center(scanTimers[1]),
                         isScanning |-> FALSE,
                         targetTile |-> scanTimers[1]]]_vars
  /\ [][droneState.position # null => droneState'.position # null]_vars

\* ------------------------------------------- the service and one client
\* JSON.parse(event.data) of a tile the service serialised: the sidecar's
\* fields (id, row, col, bbox) as the hook reads them; the hook never reads
\* the timestamp; the record of a sidecar that is not tile metadata carries
\* the id alone
ParseTile(rec) == IF rec.meta = "tile" THEN Tile(rec.id) ELSE [id |-> rec.id]

ParseTiles(recs) == [n \in 1..Len(recs) |-> ParseTile(recs[n])]

\* the rasters are in the tile directory before the service starts: the
\* simulator copies a tile's raster before its sidecar
LinkInit ==
  /\ ClientInit
  /\ LayerInit
  /\ phase = "boot"
  /\ scanQueue = <<>>
  /\ tif = [i \in TileIds |-> TRUE]
  /\ json = [i \in TileIds |-> "absent"]
  /\ pending = [p \in Paths |-> "none"]
  /\ writes = 0
  /\ now = 1
  /\ tilesMetadata = <<>>
  /\ clients = {}
  /\ readyState = [s \in Sessions |-> "NONE"]
  /\ sent = [s \in Sessions |-> <<>>]
  /\ regLog = <<>>
  /\ openAt = [s \in Sessions |-> 0]
  /\ dropped = {}
  /\ startupIds = {}
  /\ handled = {}
  /\ response = NoResponse

\* the service accepts the connection the hook's socket k asked for
LinkConnection(k) ==
  /\ sockets[k] = "CONNECTING"
  /\ Connection(k)

\* the socket's open event, raised once the service has accepted
LinkOpen(k) ==
  /\ readyState[k] = "OPEN"
  /\ onopen(k)

\* how many of the messages sent to session k the hook has handled
Handled(k) ==
  (IF sockets[k] = "OPEN" /\ k \notin snapshotDue THEN 1 ELSE 0) + Len(arrivals)

\* the socket's message event for the next message the service sent
Deliver(k) ==
  /\ Handled(k) < Len(sent[k])
  /\ LET message == sent[k][Handled(k) + 1] IN
       IF message.type = "initial"
         THEN ReceiveInitial(k, ParseTiles(message.tiles))
         ELSE ReceiveNewTile(k, ParseTile(message.tiles[1]))

\* the service, a producer of well-formed sidecars and one hook whose socket
\* stays connected
LinkNext ==
  \/ ReadDir
  \/ ScanStep
  \/ WatchStart
  \/ \E i \in TileIds : WriteJson(i, "valid")
  \/ \E p \in Paths : HandleEvent(p)
  \/ Mount /\ UNCHANGED staleVars
  \/ LinkConnection(1)
  \/ LinkOpen(1) /\ UNCHANGED staleVars
  \/ Deliver(1) /\ UNCHANGED staleVars
  \/ ScanTimerFires /\ UNCHANGED staleVars
  \/ SettleTimerFires /\ UNCHANGED staleVars

LinkSpec == LinkInit /\ [][LinkNext]_vars

\* as LinkSpec, with a producer that also writes, once the session is open,
\* sidecars that parse but hold no tile metadata
FaultNext ==
  \/ LinkNext
  \/ \E i \in TileIds : readyState[1] = "OPEN" /\ WriteJson(i, "wrongshape")

FaultSpec == LinkInit /\ [][FaultNext]_vars

\* timers fire and messages are delivered
FaultFairSpec ==
  /\ FaultSpec
  /\ WF_vars(Deliver(1) /\ UNCHANGED staleVars)
  /\ WF_vars(ScanTimerFires /\ UNCHANGED staleVars)
  /\ WF_vars(SettleTimerFires /\ UNCHANGED staleVars)

\* C24: for the session that stays connected, the ChangeEvents sent to it are
\* the registrations made since it opened, in registration order; the hook
\* handles them in the order they were sent; and the tiles enter scanning in
\* the order their ChangeEvents were handled.
C24_EndToEndOrdering ==
  LET ev == ChangeEvents(1) IN
    /\ readyState[1] = "OPEN" => Len(ev) = Len(regLog) - openAt[1]
    /\ \A n \in 1..Len(ev) : ev[n].tiles[1] = regLog[openAt[1] + n]
    /\ Len(arrivals) <= Len(ev)
    /\ \A n \in 1..Len(arrivals) : arrivals[n] = ParseTile(ev[n].tiles[1])
    /\ Len(scanLog) <= Len(arrivals)
    /\ \A n \in 1..Len(scanLog) : scanLog[n] = arrivals[n]

\* tile 2 was registered before tile 1 after the session opened, both
\* ChangeEvents were handled while a scan was running, and the tiles entered
\* scanning in that order
C24_Witness ==
  /\ openAt[1] = 0
  /\ Len(regLog) >= 2
  /\ regLog[1].id = 2
  /\ regLog[2].id = 1
  /\ scanLog = <<Tile(2), Tile(1)>>
  /\ Len(arrivals) = 3
  /\ Len(pendingTilesRef) = 1

\* the bbox [32.99, 17.08, 33.10, 17.18], in thousandths of a degree
ExampleBbox == <<32990, 17080, 33100, 17180>>

\* the mean of the second and fourth, and of the first and third element of a
\* bbox (sequences count from 1)
LonLat(bbox) ==
  [lon |-> (bbox[2] + bbox[4]) \div 2, lat |-> (bbox[1] + bbox[3]) \div 2]

\* C25: the position the drone gets when a scan starts, and the one it gets
\* from a Snapshot, is lon = (bbox[1]+bbox[3])/2, lat = (bbox[0]+bbox[2])/2 of
\* the target tile's bbox; for the bbox [32.99, 17.08, 33.10, 17.18] the
\* center is lon 17.13, lat 33.045 and not the average of the element pairs.
C25_AxisNormalization ==
  /\ [][(mounted = "yes" /\ StartsScan) =>
          /\ droneState'.targetTile = scanLog'[Len(scanLog')]
          /\ droneState'.position = LonLat(scanLog'[Len(scanLog')].bbox)]_vars
  /\ [][\A k \in SocketIds, ts \in Snapshots :
          (mounted = "yes" /\ ReceiveInitial(k, ts) /\ Len(ts) > 0) =>
            /\ droneState'.targetTile \in SeqSet(ts)
            /\ droneState'.position = LonLat(droneState'.targetTile.bbox)]_vars
  /\ [](Center([bbox |-> ExampleBbox]) = [lon |-> 17130, lat |-> 33045])
  /\ [](Center([bbox |-> ExampleBbox]) #
          [lon |-> (ExampleBbox[1] + ExampleBbox[2]) \div 2,
           lat |-> (ExampleBbox[3] + ExampleBbox[4]) \div 2])

\* a Snapshot placed the drone on tile 2, and the scan of tile 1 then moved
\* it to the center of tile 1
C25_Witness ==
  /\ mounted = "yes"
  /\ 2 \in DOMAIN visibleTiles
  /\ droneState.isScanning
  /\ droneState.targetTile = Tile(1)
  /\ droneState.position = [lon |-> 15, lat |-> 5]
  /\ scanLog = <<Tile(1)>>

\* --------------------------------------- the service and its two queries
\* the service over a directory that holds the rasters already, with a
\* producer of well-formed sidecars, sessions and the two GET endpoints
CatalogNext ==
  \/ ReadDir
  \/ ScanStep
  \/ WatchStart
  \/ \E i \in TileIds : WriteJson(i, "valid")
  \/ \E p \in Paths : HandleEvent(p)
  \/ \E s \in 1..MaxSessions : Connection(s)
  \/ GetTiles
  \/ \E i \in TileIds : GetTile(i)

CatalogSpec == LinkInit /\ [][CatalogNext]_vars

\* the ids of the records of q, in order
IdSeq(q) == [n \in 1..Len(q) |-> q[n].id]

\* the ids of the records of log in the order of their first occurrence
RECURSIVE FirstOrder(_)
FirstOrder(log) ==
  IF log = <<>> THEN <<>>
  ELSE LET before == FirstOrder(SubSeq(log, 1, Len(log) - 1))
           id == log[Len(log)].id IN
       IF \E n \in 1..Len(before) : before[n] = id
         THEN before ELSE Append(before, id)

\* C26: the tiles of a session's Snapshot are in the order in which their ids
\* were first registered before the session opened, and the tiles of a
\* list-all response are in the order in which the ids were first registered,
\* whatever the rows and columns of the tiles and however often an id was
\* registered again.
C26_SnapshotOrder ==
  /\ [](\A s \in Sessions :
          readyState[s] # "NONE" =>
            IdSeq(SnapshotOf(s).tiles) = FirstOrder(SubSeq(regLog, 1, openAt[s])))
  /\ [][GetTiles =>
          /\ response'.status = 200
          /\ IdSeq(response'.tiles) = FirstOrder(regLog)]_vars

\* tile 2 was registered, then tile 1, then tile 2 again; the Snapshot of the
\* session that opened after that and the last list-all response both hold
\* tile 2 before tile 1
C26_Witness ==
  /\ IdSeq(regLog) = <<2, 1, 2>>
  /\ readyState[1] = "OPEN"
  /\ openAt[1] = 3
  /\ IdSeq(SnapshotOf(1).tiles) = <<2, 1>>
  /\ response.status = 200
  /\ IdSeq(response.tiles) = <<2, 1>>

\* C27: a fetch by an id that is not in the registry answers not found (404,
\* no record), a fetch by a registered id answers 200 with the record stored
\* under that id, and a step that answers a query changes neither the
\* registry nor the broadcast set.
C27_NotFoundQuery ==
  /\ [][\A i \in TileIds :
          GetTile(i) =>
            IF \E n \in 1..Len(tilesMetadata) : tilesMetadata[n].id = i
              THEN /\ response'.status = 200
                   /\ Len(response'.tiles) = 1
                   /\ response'.tiles[1].id = i
                   /\ response'.tiles[1] \in SeqSet(tilesMetadata)
              ELSE /\ response'.status = 404
                   /\ response'.tiles = <<>>]_vars
  /\ [][response' # NoResponse =>
          tilesMetadata' = tilesMetadata /\ clients' = clients]_vars

\* tile 1 is registered, a session is open, and the last fetch, by the id of
\* an unregistered tile, was answered not found
C27_Witness ==
  /\ IdSeq(tilesMetadata) = <<1>>
  /\ clients = {1}
  /\ response = [status |-> 404, tiles |-> <<>>]

\* C28: in every state of the hook every revealed tile id is a known tile id,
\* and the revealed count is at most the known count.
C28_RevealedSubsetOfKnown ==
  /\ DOMAIN visibleTiles \subseteq DOMAIN tiles
  /\ Cardinality(DOMAIN visibleTiles) <= Cardinality(DOMAIN tiles)

\* no socket event and no message has been handled: the hook is not rendered
\* or its first socket is still connecting
NothingHandled ==
  /\ mounted # "gone"
  /\ \A k \in SocketIds : sockets[k] \in {"NONE", "CONNECTING"}

\* C29: as long as no socket event and no message has been handled, the hook
\* reports not connected, no known and no revealed tile (both counts 0), a
\* null drone position, not scanning and no target.
C29_InitialClientState ==
  NothingHandled =>
    /\ isConnected = FALSE
    /\ tiles = <<>>
    /\ visibleTiles = <<>>
    /\ Cardinality(DOMAIN tiles) = 0
    /\ Cardinality(DOMAIN visibleTiles) = 0
    /\ droneState.position = null
    /\ droneState.isScanning = FALSE
    /\ droneState.targetTile = null

\* the hook has rendered and its first socket is connecting
C29_Witness ==
  /\ mounted = "yes"
  /\ wsRef = 1
  /\ sockets[1] = "CONNECTING"
  /\ ~isConnected
  /\ droneState.position = null

\* the tiles whose raster and well-formed sidecar are both on disk
PairedOnDisk == {i \in TileIds : tif[i] /\ json[i] = "valid"}

\* C30: when the startup scan ends and the watcher starts, every tile whose
\* raster and well-formed sidecar were on disk at startup is registered (the
\* directory does not change during the synchronous scan); no watcher event
\* exists and no session opens before that; so every session's Snapshot
\* holds every tile the startup scan registered.
C30_StartupBeforeSessions ==
  /\ [][(phase = "scan" /\ phase' = "live") =>
          /\ PairedOnDisk \subseteq startupIds
          /\ startupIds \subseteq Ids(tilesMetadata')]_vars
  /\ [](phase # "live" =>
          /\ \A p \in Paths : pending[p] = "none"
          /\ \A s \in Sessions : readyState[s] = "NONE")
  /\ [](\A s \in Sessions :
          readyState[s] # "NONE" =>
            /\ sent[s] # <<>>
            /\ startupIds \subseteq Ids(SnapshotOf(s).tiles))

\* tile 1 was paired on disk when the service started, a sidecar without
\* raster lay beside it, and the session's Snapshot holds tile 1
C30_Witness ==
  /\ startupIds = {1}
  /\ dropped = {2}
  /\ readyState[1] = "OPEN"
  /\ openAt[1] = 1
  /\ Len(regLog) = 1
  /\ Ids(SnapshotOf(1).tiles) = {1}

\* the session is open, no watcher event is pending, every message sent to it
\* has been handled, the animation queue is empty and no timer is pending
Quiescent ==
  /\ mounted = "yes"
  /\ readyState[1] = "OPEN"
  /\ sockets[1] = "OPEN"
  /\ \A p \in Paths : pending[p] = "none"
  /\ Handled(1) = Len(sent[1])
  /\ pendingTilesRef = <<>>
  /\ scanTimers = <<>>
  /\ settleTimers = 0

\* C31: for the session that stays connected, whenever no registration is
\* pending, every message sent has been handled and the animation queue has
\* drained, the known tile ids and the revealed tile ids both are the tile
\* ids of the service's registry.
C31_EventualConsistency ==
  Quiescent =>
    /\ DOMAIN tiles = Ids(tilesMetadata)
    /\ DOMAIN visibleTiles = Ids(tilesMetadata)

\* C32: handling a Snapshot with at least one tile enqueues nothing and
\* starts no scan (no scan timer is set); afterwards the drone is not
\* scanning, its target is the last tile of the Snapshot in ascending (row,
\* col) order and its position is that tile's center.
C32_SnapshotNotAnimated ==
  [][\A k \in SocketIds, ts \in Snapshots :
       (mounted = "yes" /\ ReceiveInitial(k, ts) /\ Len(ts) > 0) =>
         /\ pendingTilesRef' = pendingTilesRef
         /\ scanLog' = scanLog
         /\ scanTimers' = scanTimers
         /\ processingRef' = processingRef
         /\ ~droneState'.isScanning
         /\ droneState'.targetTile \in SeqSet(ts)
         /\ \A n \in 1..Len(ts) :
              \/ ts[n].row < droneState'.targetTile.row
              \/ /\ ts[n].row = droneState'.targetTile.row
                 /\ ts[n].col <= droneState'.targetTile.col
         /\ droneState'.position = LonLat(droneState'.targetTile.bbox)]_vars

\* the Snapshot [tile 1, tile 2] was handled while nothing was queued or
\* scanned: both tiles are revealed and the drone rests on tile 2 (row 1)
C32_Witness ==
  /\ mounted = "yes"
  /\ DOMAIN visibleTiles = {1, 2}
  /\ arrivals = <<>>
  /\ scanLog = <<>>
  /\ ~droneState.isScanning
  /\ droneState.targetTile = Tile(2)
  /\ droneState.position = [lon |-> 5, lat |-> 15]

\* the tile objects a message can carry: with the metadata of a tile, or with
\* the id alone
AnyTiles == ClientTiles \cup {[id |-> i] : i \in ClientIds}

\* C33: whenever the animation queue is not empty (between handlers and timer
\* callbacks), the processing flag is set and a scan timer or a settle timer
\* is pending; and, timers firing, every tile in the queue is later in the
\* revealed tiles.
C33_QueueNeverStalls ==
  /\ [](pendingTilesRef # <<>> =>
          processingRef /\ (scanTimers # <<>> \/ settleTimers > 0))
  /\ \A t \in AnyTiles :
       (mounted = "yes" /\ t \in SeqSet(pendingTilesRef))
         ~> (t.id \in DOMAIN visibleTiles)

\* C34: a tile that enters scanning has not entered scanning before and is
\* not in the revealed tiles.
C34_NoDuplicateReveal ==
  [][(mounted = "yes" /\ StartsScan) =>
       LET tile == scanLog'[Len(scanLog')] IN
         /\ tile.id \notin TileIdsOf(scanLog)
         /\ tile.id \notin DOMAIN visibleTiles]_vars

\* C35: once the cleanup of the effect has run, no reconnect timeout is
\* pending, none is scheduled afterwards and no socket is created.
C35_CleanUnmount ==
  /\ [](mounted = "gone" => reconnectTimers = {})
  /\ [][mounted = "gone" =>
          /\ reconnectTimers' \subseteq reconnectTimers
          /\ \A k \in SocketIds : sockets[k] = "NONE" => sockets'[k] = "NONE"]_vars

\* the sockets that are connecting or open
Live == {k \in SocketIds : sockets[k] \in {"CONNECTING", "OPEN"}}

\* C36: at most one socket of the hook is connecting or open, at most one
\* reconnect timeout is pending, and a socket is created only when no earlier
\* socket is connecting or open.
C36_NoDuplicateConnections ==
  /\ [](Cardinality(Live) <= 1)
  /\ [](Cardinality(reconnectTimers) <= 1)
  /\ [][\A k \in SocketIds :
          (sockets[k] = "NONE" /\ sockets'[k] # "NONE") => Live = {}]_vars

\* the first socket closed, its reconnect timeout fired and the second socket
\* is the only one that is connecting or open
C36_Witness ==
  /\ mounted = "yes"
  /\ sockets[1] = "CLOSED"
  /\ sockets[2] = "CONNECTING"
  /\ wsRef = 2
  /\ reconnectTimers = {}

\* C37: while the hook is mounted and the drone's scanning flag is true, the
\* processing flag is set, the target is the tile dequeued last, the position
\* is that tile's center, and the scan timer of that tile has not fired yet.
C37_ScanningImpliesActiveCycle ==
  (mounted = "yes" /\ droneState.isScanning) =>
    /\ processingRef
    /\ scanLog # <<>>
    /\ droneState.targetTile = scanLog[Len(scanLog)]
    /\ droneState.position = LonLat(droneState.targetTile.bbox)
    /\ scanTimers # <<>>
    /\ scanTimers[Len(scanTimers)] = droneState.targetTile

\* the second ChangeEvent's tile is being scanned after the first one's scan
\* completed
C37_Witness ==
  /\ mounted = "yes"
  /\ droneState.isScanning
  /\ Len(scanLog) = 2
  /\ droneState.targetTile = scanLog[2]
  /\ scanLog[1].id \in DOMAIN visibleTiles
  /\ scanLog[2].id \notin DOMAIN visibleTiles

\* C38: once DroneLayer has the map and has processed an update of its tiles
\* list, the map holds one layer for every tile id in the list, and no id has
\* two layers.
C38_OneLayerPerRevealedTile ==
  map =>
    /\ \A n \in 1..Len(layerTiles) : mapLayers[layerTiles[n].id] = 1
    /\ \A i \in LayerIds : mapLayers[i] <= 1

====
